---- MODULE Spec2Model ----
(***************************************************************************)
(* Model of vector_lib: the SSE3 vector backend (vector_sse3.h), the       *)
(* generic quaternion operations (quaternion_base.h), the SSE2 quaternion  *)
(* overrides (quaternion_sse2.h), and the define-if-absent dispatch of     *)
(* quaternion_sse2.h / quaternion_base.h / matrix_base.h.                  *)
(*                                                                         *)
(* A float lane is modelled as an exact rational [n, d] (d > 0, reduced),  *)
(* with d = 0 for the IEEE specials: 1/0 = +Inf, -1/0 = -Inf, 0/0 = NaN.   *)
(* A vector_t / quaternion_t is a record of four lanes x, y, z, w, lane    *)
(* 0 = x (the lowest memory address) to lane 3 = w.                        *)
(***************************************************************************)
EXTENDS Integers, Sequences, FiniteSets, TLC

VARIABLES
    pc,      \* the operation that produced r ("start": nothing has run)
    q0,      \* first operand (a quaternion)
    q1,      \* second operand (a quaternion, or the vector of a rotate)
    q2,      \* third operand of a chained multiplication
    factor,  \* the interpolation factor of quaternion_slerp
    r,       \* the value the last operation returned
    rsq,     \* square of the scalar r is still to be scaled by (slerp)
    branch,  \* the return statement quaternion_slerp left by
    mem,     \* the float array a load reads
    addr,    \* the byte address of mem[0]
    macros,  \* preprocessor: the VECTOR_HAVE_* flags currently defined
    symbols, \* preprocessor: operation -> sequence of files that defined it
    unit,    \* preprocessor: the remaining directives of the translation unit
    done     \* preprocessor: the number of directives already processed

vars == <<pc, q0, q1, q2, factor, r, rsq, branch, mem, addr, macros, symbols, unit, done>>

----------------------------------------------------------------------------
(* Bounds of the model                                                     *)

\* operands of the binary operations have lanes in -1 .. MaxLane
MaxLane == 1
\* the third operand of a chained product is a basis quaternion times 1 .. MaxScale
MaxScale == 1
\* operands of the unary operations have lanes in -MaxLaneU .. MaxLaneU
MaxLaneU == 4
\* the floats of a loaded array are in -MaxFloat .. MaxFloat
MaxFloat == 2
\* a loaded array starts at byte 4 * k, k in 0 .. MaxAddrWords
MaxAddrWords == 4
\* operands of quaternion_slerp have lanes k/2, k in -MaxHalf .. MaxHalf
MaxHalf == 2

\* matrix rows are drawn from RowOf(0) .. RowOf(MaxRow)
MaxRow == 6

----------------------------------------------------------------------------
(* Exact lane arithmetic                                                   *)

Abs(i) == IF i < 0 THEN 0 - i ELSE i

Sign(i) == IF i < 0 THEN 0 - 1 ELSE IF i > 0 THEN 1 ELSE 0

RECURSIVE Gcd(_, _)
Gcd(a, b) == IF b = 0 THEN a ELSE Gcd(b, a % b)

\* the lane n/d in lowest terms; d = 0 gives +Inf, -Inf or NaN
Real(n, d) ==
    IF d = 0 THEN [n |-> Sign(n), d |-> 0]
    ELSE IF d = 1 THEN [n |-> n, d |-> 1]
    ELSE LET g == Gcd(Abs(n), Abs(d))
             s == Sign(d)
         IN  [n |-> (s * n) \div g, d |-> (s * d) \div g]

\* a float literal with an integer value
F(i) == [n |-> i, d |-> 1]

IsNaN(a) == a.d = 0 /\ a.n = 0

\* a * b (a * in C)
fmul(a, b) == Real(a.n * b.n, a.d * b.d)

\* a + b (Inf + Inf of one sign stays Inf, of opposite signs is NaN)
fadd(a, b) ==
    IF a.d = 0 /\ b.d = 0
    THEN (IF a.n = b.n THEN a ELSE [n |-> 0, d |-> 0])
    ELSE Real(a.n * b.d + b.n * a.d, a.d * b.d)

\* -a (unary minus in C)
fneg(a) == [n |-> 0 - a.n, d |-> a.d]

\* a - b
fsub(a, b) == fadd(a, fneg(b))

\* a / b
fdiv(a, b) ==
    IF b.d = 0 THEN (IF a.d = 0 \/ b.n = 0 THEN [n |-> 0, d |-> 0] ELSE F(0))
    ELSE IF a.d = 0 THEN [n |-> a.n * (IF b.n < 0 THEN 0 - 1 ELSE 1), d |-> 0]
    ELSE Real(a.n * b.d, a.d * b.n)

\* a < b; false when either side is NaN
flt(a, b) ==
    /\ ~IsNaN(a)
    /\ ~IsNaN(b)
    /\ IF a.d = 0 /\ b.d = 0 THEN a.n < b.n
       ELSE IF a.d = 0 THEN a.n < 0
       ELSE IF b.d = 0 THEN b.n > 0
       ELSE a.n * b.d < b.n * a.d

----------------------------------------------------------------------------
(* SSE intrinsics on __m128, by lane                                       *)

Lane(v, i) == CASE i = 0 -> v.x [] i = 1 -> v.y [] i = 2 -> v.z [] i = 3 -> v.w

\* the immediate of a shuffle: selector for lane 3, 2, 1, 0 (two bits each)
_MM_SHUFFLE(fp3, fp2, fp1, fp0) == fp3 * 64 + fp2 * 16 + fp1 * 4 + fp0

\* lanes 0,1 from a, lanes 2,3 from b, each chosen by two bits of imm
_mm_shuffle_ps(a, b, imm) ==
    [x |-> Lane(a, imm % 4),
     y |-> Lane(a, (imm \div 4) % 4),
     z |-> Lane(b, (imm \div 16) % 4),
     w |-> Lane(b, (imm \div 64) % 4)]

\* the integer shuffle: every lane from a
_mm_shuffle_epi32(a, imm) ==
    [x |-> Lane(a, imm % 4),
     y |-> Lane(a, (imm \div 4) % 4),
     z |-> Lane(a, (imm \div 16) % 4),
     w |-> Lane(a, (imm \div 64) % 4)]

_mm_setr_ps(e0, e1, e2, e3) == [x |-> e0, y |-> e1, z |-> e2, w |-> e3]

_mm_set1_ps(a) == [x |-> a, y |-> a, z |-> a, w |-> a]

_mm_set_ss(a) == [x |-> a, y |-> F(0), z |-> F(0), w |-> F(0)]

_mm_setzero_ps == [x |-> F(0), y |-> F(0), z |-> F(0), w |-> F(0)]

_mm_mul_ps(a, b) ==
    [x |-> fmul(a.x, b.x), y |-> fmul(a.y, b.y), z |-> fmul(a.z, b.z), w |-> fmul(a.w, b.w)]

_mm_div_ps(a, b) ==
    [x |-> fdiv(a.x, b.x), y |-> fdiv(a.y, b.y), z |-> fdiv(a.z, b.z), w |-> fdiv(a.w, b.w)]

_mm_add_ps(a, b) ==
    [x |-> fadd(a.x, b.x), y |-> fadd(a.y, b.y), z |-> fadd(a.z, b.z), w |-> fadd(a.w, b.w)]

_mm_sub_ps(a, b) ==
    [x |-> fsub(a.x, b.x), y |-> fsub(a.y, b.y), z |-> fsub(a.z, b.z), w |-> fsub(a.w, b.w)]

\* subtract in lanes 0 and 2, add in lanes 1 and 3
_mm_addsub_ps(a, b) ==
    [x |-> fsub(a.x, b.x), y |-> fadd(a.y, b.y), z |-> fsub(a.z, b.z), w |-> fadd(a.w, b.w)]

\* loads of four consecutive floats, p[0] into lane 0
_mm_loadu_ps(p) == [x |-> p[1], y |-> p[2], z |-> p[3], w |-> p[4]]

_mm_load_ps(p) == [x |-> p[1], y |-> p[2], z |-> p[3], w |-> p[4]]

----------------------------------------------------------------------------
(* Lane-permutation masks: VECTOR_MASK_abcd gives output lanes 0..3 the    *)
(* source lanes a, b, c, d (X = 0, Y = 1, Z = 2, W = 3)                    *)

X == 0
Y == 1
Z == 2
W == 3

VECTOR_MASK_XXXX == _MM_SHUFFLE(X, X, X, X)
VECTOR_MASK_YYYY == _MM_SHUFFLE(Y, Y, Y, Y)
VECTOR_MASK_ZZZZ == _MM_SHUFFLE(Z, Z, Z, Z)
VECTOR_MASK_WWWW == _MM_SHUFFLE(W, W, W, W)
VECTOR_MASK_XYYX == _MM_SHUFFLE(X, Y, Y, X)
VECTOR_MASK_YXYX == _MM_SHUFFLE(X, Y, X, Y)
VECTOR_MASK_YYXX == _MM_SHUFFLE(X, X, Y, Y)
VECTOR_MASK_ZZWW == _MM_SHUFFLE(W, W, Z, Z)
VECTOR_MASK_XYXZ == _MM_SHUFFLE(Z, X, Y, X)
VECTOR_MASK_XYXW == _MM_SHUFFLE(W, X, Y, X)
VECTOR_MASK_YZXW == _MM_SHUFFLE(W, X, Z, Y)
VECTOR_MASK_ZXYW == _MM_SHUFFLE(W, Y, X, Z)
VECTOR_MASK_YXWZ == _MM_SHUFFLE(Z, W, X, Y)
VECTOR_MASK_ZWXY == _MM_SHUFFLE(Y, X, W, Z)
VECTOR_MASK_YWXZ == _MM_SHUFFLE(Z, X, W, Y)
VECTOR_MASK_YXZW == _MM_SHUFFLE(W, Z, X, Y)
VECTOR_MASK_ZXWY == _MM_SHUFFLE(Y, W, X, Z)
VECTOR_MASK_WYXZ == _MM_SHUFFLE(Z, X, Y, W)
VECTOR_MASK_XYWZ == _MM_SHUFFLE(Z, W, Y, X)

----------------------------------------------------------------------------
(* vector_sse3.h                                                           *)

vector_shuffle(v, mask) == _mm_shuffle_ps(v, v, mask)

vector(x, y, z, w) == _mm_setr_ps(x, y, z, w)

\* vector_aligned with the four floats loaded in reverse lane order
vector_aligned_reversed(v) == _mm_setr_ps(v[4], v[3], v[2], v[1])

vector_aligned(v) == _mm_load_ps(v)

vector_unaligned(v) == _mm_loadu_ps(v)

vector_zero == _mm_setzero_ps

vector_one == _mm_set1_ps(F(1))

vector_xaxis == _mm_shuffle_epi32(_mm_set_ss(F(1)), VECTOR_MASK_XYYX)

vector_yaxis == _mm_shuffle_epi32(_mm_set_ss(F(1)), VECTOR_MASK_YXYX)

vector_zaxis == _mm_shuffle_epi32(_mm_set_ss(F(1)), VECTOR_MASK_YYXX)

vector_dot(v0, v1) ==
    LET rr == _mm_mul_ps(v0, v1)
    IN  _mm_add_ps(_mm_add_ps(vector_shuffle(rr, VECTOR_MASK_XXXX),
                              vector_shuffle(rr, VECTOR_MASK_YYYY)),
                   _mm_add_ps(vector_shuffle(rr, VECTOR_MASK_ZZZZ),
                              vector_shuffle(rr, VECTOR_MASK_WWWW)))

vector_dot3(v0, v1) ==
    LET rr == _mm_mul_ps(v0, v1)
    IN  _mm_add_ps(_mm_add_ps(vector_shuffle(rr, VECTOR_MASK_XXXX),
                              vector_shuffle(rr, VECTOR_MASK_YYYY)),
                   vector_shuffle(rr, VECTOR_MASK_ZZZZ))

vector_mul(v0, v1) == _mm_mul_ps(v0, v1)

vector_div(v0, v1) == _mm_div_ps(v0, v1)

vector_add(v0, v1) == _mm_add_ps(v0, v1)

vector_sub(v0, v1) == _mm_sub_ps(v0, v1)

vector_neg(v) == _mm_sub_ps(_mm_setzero_ps, v)

vector_scale(v, s) == _mm_mul_ps(v, _mm_set1_ps(s))

vector_cross3(v0, v1) ==
    LET v0yzx == vector_shuffle(v0, VECTOR_MASK_YZXW)
        v1yzx == vector_shuffle(v1, VECTOR_MASK_YZXW)
        v0zxy == vector_shuffle(v0, VECTOR_MASK_ZXYW)
        v1zxy == vector_shuffle(v1, VECTOR_MASK_ZXYW)
    IN  vector_sub(vector_mul(v0yzx, v1zxy), vector_mul(v0zxy, v1yzx))

vector_length_sqr(v) == vector_dot(v, v)

\* a * b + c by lane
vector_muladd(a, b, c) == _mm_add_ps(_mm_mul_ps(a, b), c)

----------------------------------------------------------------------------
(* quaternion_base.h: the generic definitions                              *)

quaternion_zero == vector_zero

quaternion_unaligned(q) == vector_unaligned(q)

quaternion_aligned(q) == vector_aligned(q)

quaternion_identity == quaternion_aligned(<<F(0), F(0), F(0), F(1)>>)

quaternion_conjugate(q) == vector(fneg(q.x), fneg(q.y), fneg(q.z), q.w)

\* quaternion_inverse with the w lane scaled by -inv_norm like x, y, z
quaternion_inverse_negated_w(q) ==
    LET norm == vector_length_sqr(q).x
        inv_norm == fdiv(F(1), norm)
    IN  [x |-> fmul(q.x, fneg(inv_norm)),
         y |-> fmul(q.y, fneg(inv_norm)),
         z |-> fmul(q.z, fneg(inv_norm)),
         w |-> fmul(q.w, fneg(inv_norm))]

quaternion_inverse(q) ==
    LET norm == vector_length_sqr(q).x
        inv_norm == fdiv(F(1), norm)
    IN  [x |-> fmul(q.x, fneg(inv_norm)),
         y |-> fmul(q.y, fneg(inv_norm)),
         z |-> fmul(q.z, fneg(inv_norm)),
         w |-> fmul(q.w, inv_norm)]

quaternion_neg(q) == vector_neg(q)

\* quaternion_mul with the last term of the x lane added instead of subtracted
quaternion_mul_sign_slip(a, b) ==
    vector(
      fadd(fadd(fadd(fmul(b.w, a.x), fmul(b.x, a.w)), fmul(b.y, a.z)), fmul(b.z, a.y)),
      fadd(fadd(fsub(fmul(b.w, a.y), fmul(b.x, a.z)), fmul(b.y, a.w)), fmul(b.z, a.x)),
      fadd(fsub(fadd(fmul(b.w, a.z), fmul(b.x, a.y)), fmul(b.y, a.x)), fmul(b.z, a.w)),
      fsub(fsub(fsub(fmul(b.w, a.w), fmul(b.x, a.x)), fmul(b.y, a.y)), fmul(b.z, a.z)))

quaternion_mul(a, b) ==
    vector(
      fsub(fadd(fadd(fmul(b.w, a.x), fmul(b.x, a.w)), fmul(b.y, a.z)), fmul(b.z, a.y)),
      fadd(fadd(fsub(fmul(b.w, a.y), fmul(b.x, a.z)), fmul(b.y, a.w)), fmul(b.z, a.x)),
      fadd(fsub(fadd(fmul(b.w, a.z), fmul(b.x, a.y)), fmul(b.y, a.x)), fmul(b.z, a.w)),
      fsub(fsub(fsub(fmul(b.w, a.w), fmul(b.x, a.x)), fmul(b.y, a.y)), fmul(b.z, a.z)))

quaternion_rotate(q, v) ==
    LET c1 == vector_cross3(q, v)
        v1 == [x |-> fadd(c1.x, fmul(v.x, q.w)),
               y |-> fadd(c1.y, fmul(v.y, q.w)),
               z |-> fadd(c1.z, fmul(v.z, q.w)),
               w |-> c1.w]
        v2 == vector_cross3(v1, q)
        dot == fadd(fadd(fmul(q.x, v.x), fmul(q.y, v.y)), fmul(q.z, v.z))
    IN  [x |-> fsub(fadd(fmul(q.x, dot), fmul(v1.x, q.w)), v2.x),
         y |-> fsub(fadd(fmul(q.y, dot), fmul(v1.y, q.w)), v2.y),
         z |-> fsub(fadd(fmul(q.z, dot), fmul(v1.z, q.w)), v2.z),
         w |-> F(1)]

\* 1 / REAL_EPSILON of math_realzero (|x| < REAL_EPSILON)
RealEpsilonInv == 100000

\* math_realzero(math_acos(c)) for -1 < c < 1: acos(c) < eps, that is
\* 1 - c < eps * eps / 2 (cos eps to second order), without overflow
AcosIsRealZero(c) ==
    LET g == fsub(F(1), c)
    IN  2 * g.n * RealEpsilonInv < (g.d + RealEpsilonInv - 1) \div RealEpsilonInv

\* slerp_qd without the shortest-path correction
slerp_qd_uncorrected(b, cosval) == b

\* qd: the target of the interpolation, q1 negated when the first cosine
\* (cosval of line 133) is negative
slerp_qd(b, cosval) ==
    IF flt(cosval, F(0)) THEN quaternion_neg(b) ELSE b

\* slerp_cosval keeping the first cosine once qd is negated
slerp_cosval_stale(a, qd, cosval) == cosval

\* cosval after the correction
slerp_cosval(a, qd, cosval) ==
    IF flt(cosval, F(0)) THEN vector_dot(a, qd).x ELSE cosval

\* the return statement quaternion_slerp leaves by, and the angle it uses
slerp_branch(cosval) ==
    IF flt(F(0 - 1), cosval)
    THEN IF flt(cosval, F(1))
         THEN (IF AcosIsRealZero(cosval) THEN "angle_zero" ELSE "acos")
         ELSE "cos_ge_1"
    ELSE "pi"

\* c1 = sin((1 - t) * angle) / sin(angle) and c2 = sin(t * angle) / sin(angle)
\* as k1 * sqrt(sq) and k2 * sqrt(sq), for t in {0, 1/2, 1}: with
\* angle = acos(c), sin(angle / 2) / sin(angle) = 1 / sqrt(2 + 2c); with
\* angle = pi, sin(angle) = 0 and invsin = 1/0
slerp_coefficients(angle, cosval, t) ==
    LET invsin == IF angle = "pi" THEN fdiv(F(1), F(0)) ELSE F(1)
        sinpi == F(0)
    IN  CASE t = F(0) ->
               [k1 |-> IF angle = "pi" THEN fmul(sinpi, invsin) ELSE F(1),
                k2 |-> fmul(F(0), invsin), sq |-> F(1)]
          [] t = F(1) ->
               [k1 |-> fmul(F(0), invsin),
                k2 |-> IF angle = "pi" THEN fmul(sinpi, invsin) ELSE F(1), sq |-> F(1)]
          [] OTHER ->
               [k1 |-> fmul(F(1), invsin), k2 |-> fmul(F(1), invsin),
                sq |-> IF angle = "pi" THEN F(1)
                       ELSE fdiv(F(1), fadd(F(2), fmul(F(2), cosval)))]

\* the value returned is r * sqrt(rsq)
quaternion_slerp(a, b, t) ==
    LET cosval0 == vector_dot(a, b).x
        qd == slerp_qd(b, cosval0)
        cosval == slerp_cosval(a, qd, cosval0)
        br == slerp_branch(cosval)
    IN  IF br \in {"cos_ge_1", "angle_zero"}
        THEN [r |-> qd, rsq |-> F(1), branch |-> br]
        ELSE LET c == slerp_coefficients(br, cosval, t)
             IN  [r |-> vector_add(vector_scale(a, c.k1), vector_scale(qd, c.k2)),
                  rsq |-> c.sq, branch |-> br]

----------------------------------------------------------------------------
(* quaternion_sse2.h: the SSE2 overrides                                   *)

\* sse2_quaternion_conjugate without the splice that restores w
sse2_quaternion_conjugate_no_splice(q) == vector_neg(q)

sse2_quaternion_conjugate(q) ==
    LET qneg == vector_neg(q)
        splice == _mm_shuffle_ps(qneg, q, VECTOR_MASK_ZZWW)
    IN  _mm_shuffle_ps(qneg, splice, VECTOR_MASK_XYXZ)

sse2_quaternion_inverse(q) ==
    LET norm == vector_length_sqr(q)
        inv_norm == vector_div(vector_one, norm)
        rr == vector_mul(q, inv_norm)
        rneg == vector_neg(rr)
        splice == _mm_shuffle_ps(rneg, rr, VECTOR_MASK_ZZWW)
    IN  _mm_shuffle_ps(rneg, splice, VECTOR_MASK_XYXZ)

sse2_quaternion_mul(a, b) ==
    LET q0_wwww == vector_shuffle(a, VECTOR_MASK_WWWW)
        q1_yxwz == vector_shuffle(b, VECTOR_MASK_YXWZ)
        q0_xxxx == vector_shuffle(a, VECTOR_MASK_XXXX)
        q1_zwxy == vector_shuffle(b, VECTOR_MASK_ZWXY)
        q0_yyyy == vector_shuffle(a, VECTOR_MASK_YYYY)
        q1_ywxz == vector_shuffle(b, VECTOR_MASK_YWXZ)
        q0w_q1yxzw == _mm_mul_ps(q0_wwww, q1_yxwz)
        q0x_q1zwxy == _mm_mul_ps(q0_xxxx, q1_zwxy)
        q0y_q1ywxz == _mm_mul_ps(q0_yyyy, q1_ywxz)
        q0_zzzz == vector_shuffle(a, VECTOR_MASK_ZZZZ)
        q1_yxzw == vector_shuffle(b, VECTOR_MASK_YXZW)
        q0z_q1yxzw == _mm_mul_ps(q0_zzzz, q1_yxzw)
        e1 == vector_shuffle(_mm_addsub_ps(q0w_q1yxzw, q0x_q1zwxy), VECTOR_MASK_ZXWY)
        e2 == vector_shuffle(_mm_addsub_ps(e1, q0y_q1ywxz), VECTOR_MASK_WYXZ)
        e3 == _mm_addsub_ps(e2, q0z_q1yxzw)
    IN  vector_shuffle(e3, VECTOR_MASK_XYWZ)

sse2_quaternion_rotate(q, v) ==
    LET v1 == vector_cross3(q, v)
        qw == vector_shuffle(q, VECTOR_MASK_WWWW)
        v2 == vector_muladd(v, qw, v1)
        v3 == vector_cross3(v2, q)
        dot == vector_dot(q, v)
        v4 == vector_muladd(v2, qw, vector_neg(v3))
    IN  vector_muladd(q, dot, v4)

----------------------------------------------------------------------------
(* Operands                                                                *)

Lanes == {F(i) : i \in (0 - 1) .. MaxLane}

Quats == {vector(a, b, c, d) : a \in Lanes, b \in Lanes, c \in Lanes, d \in Lanes}

\* the basis quaternions i, j, k, 1 times 1 .. MaxScale
Basis ==
    UNION {{vector(F(s), F(0), F(0), F(0)), vector(F(0), F(s), F(0), F(0)),
            vector(F(0), F(0), F(s), F(0)), vector(F(0), F(0), F(0), F(s))} : s \in 1 .. MaxScale}

\* the variables an operation on quaternions does not use
NoSlerp == factor = F(0) /\ rsq = F(1) /\ branch = "none"

NoMemory == mem = <<>> /\ addr = 0

NoPreprocessor == macros = {} /\ symbols = <<>> /\ unit = <<>> /\ done = 0

----------------------------------------------------------------------------
(* Multiplication: quaternion_mul of both backends on every pair           *)

InitMul ==
    /\ pc = "start"
    /\ q0 \in Quats
    /\ q1 \in Quats
    /\ q2 = vector_zero
    /\ r = vector_zero
    /\ NoSlerp /\ NoMemory /\ NoPreprocessor

\* r = quaternion_mul(q0, q1), generic
QuaternionMul ==
    /\ pc = "start"
    /\ r' = quaternion_mul(q0, q1)
    /\ pc' = "quaternion_mul"
    /\ UNCHANGED <<q0, q1, q2, factor, rsq, branch, mem, addr, macros, symbols, unit, done>>

\* r = quaternion_mul(q0, q1), SSE2
Sse2QuaternionMul ==
    /\ pc = "start"
    /\ r' = sse2_quaternion_mul(q0, q1)
    /\ pc' = "sse2_quaternion_mul"
    /\ UNCHANGED <<q0, q1, q2, factor, rsq, branch, mem, addr, macros, symbols, unit, done>>

\* r = quaternion_mul(quaternion_mul(q0, q1), q2), generic
QuaternionMulMul ==
    /\ pc = "quaternion_mul"
    /\ \E q \in Basis :
        /\ q2' = q
        /\ r' = quaternion_mul(r, q)
    /\ pc' = "quaternion_mul_mul"
    /\ UNCHANGED <<q0, q1, factor, rsq, branch, mem, addr, macros, symbols, unit, done>>

NextMul == QuaternionMul \/ Sse2QuaternionMul \/ QuaternionMulMul

SpecMul == InitMul /\ [][NextMul]_vars

----------------------------------------------------------------------------
(* Rotation: quaternion_rotate of both backends on every (q, v)            *)

InitRotate ==
    /\ pc = "start"
    /\ q0 \in Quats
    /\ q1 \in Quats
    /\ q2 = vector_zero
    /\ r = vector_zero
    /\ NoSlerp /\ NoMemory /\ NoPreprocessor

\* r = quaternion_rotate(q0, q1), generic
QuaternionRotate ==
    /\ pc = "start"
    /\ r' = quaternion_rotate(q0, q1)
    /\ pc' = "quaternion_rotate"
    /\ UNCHANGED <<q0, q1, q2, factor, rsq, branch, mem, addr, macros, symbols, unit, done>>

\* r = quaternion_rotate(q0, q1), SSE2
Sse2QuaternionRotate ==
    /\ pc = "start"
    /\ r' = sse2_quaternion_rotate(q0, q1)
    /\ pc' = "sse2_quaternion_rotate"
    /\ UNCHANGED <<q0, q1, q2, factor, rsq, branch, mem, addr, macros, symbols, unit, done>>

NextRotate == QuaternionRotate \/ Sse2QuaternionRotate

SpecRotate == InitRotate /\ [][NextRotate]_vars

----------------------------------------------------------------------------
(* Claims about quaternion_mul                                             *)

\* two basis quaternions whose generic products in the two orders differ
MulDoesNotCommute == \E a \in Basis, b \in Basis : quaternion_mul(a, b) # quaternion_mul(b, a)

\* C1: the generic quaternion_mul(q0, q1) returns x = w1*x0 + x1*w0 + y1*z0 - z1*y0,
\* y = w1*y0 - x1*z0 + y1*w0 + z1*x0, z = w1*z0 + x1*y0 - y1*x0 + z1*w0,
\* w = w1*w0 - x1*x0 - y1*y0 - z1*z0; the product is associative, and two
\* quaternions exist whose products in the two orders differ.
C1_MulFormulaAssociative ==
    /\ pc = "quaternion_mul" =>
        LET x0 == q0.x.n  y0 == q0.y.n  z0 == q0.z.n  w0 == q0.w.n
            x1 == q1.x.n  y1 == q1.y.n  z1 == q1.z.n  w1 == q1.w.n
        IN  /\ r.x = F(w1*x0 + x1*w0 + y1*z0 - z1*y0)
            /\ r.y = F(w1*y0 - x1*z0 + y1*w0 + z1*x0)
            /\ r.z = F(w1*z0 + x1*y0 - y1*x0 + z1*w0)
            /\ r.w = F(w1*w0 - x1*x0 - y1*y0 - z1*z0)
    /\ pc = "quaternion_mul_mul" => r = quaternion_mul(q0, quaternion_mul(q1, q2))
    /\ MulDoesNotCommute

\* C1 witness: a chained product of operands that do not commute
C1_Witness ==
    /\ pc = "quaternion_mul_mul"
    /\ quaternion_mul(q0, q1) # quaternion_mul(q1, q0)
    /\ r # vector_zero

\* C2: the SSE2 quaternion_mul returns the same four lanes as the generic
\* quaternion_mul on the same arguments in the same order.
C2_Sse2MulSameAsGeneric ==
    pc = "sse2_quaternion_mul" => r = quaternion_mul(q0, q1)

----------------------------------------------------------------------------
(* Claims about quaternion_rotate                                          *)

\* C3: the w-lane of quaternion_rotate(q, v) is 1 on the generic definition
\* and on the SSE2 override.
C3_RotateWIsOne ==
    pc \in {"quaternion_rotate", "sse2_quaternion_rotate"} => r.w = F(1)

\* C4: the x, y, z lanes of the SSE2 quaternion_rotate equal those of the
\* generic definition (whose dot is the 3-lane product), for every q and v.
C4_RotateSse2SameXYZ ==
    pc = "sse2_quaternion_rotate" =>
        LET g == quaternion_rotate(q0, q1)
        IN  r.x = g.x /\ r.y = g.y /\ r.z = g.z

----------------------------------------------------------------------------
(* Conjugate and inverse: both backends on every q0                        *)

LanesU == {F(i) : i \in (0 - MaxLaneU) .. MaxLaneU}

QuatsU == {vector(a, b, c, d) : a \in LanesU, b \in LanesU, c \in LanesU, d \in LanesU}

InitUnary ==
    /\ pc = "start"
    /\ q0 \in QuatsU
    /\ q1 = vector_zero
    /\ q2 = vector_zero
    /\ r = vector_zero
    /\ NoSlerp /\ NoMemory /\ NoPreprocessor

\* r = quaternion_conjugate(q0), generic
QuaternionConjugate ==
    /\ pc = "start"
    /\ r' = quaternion_conjugate(q0)
    /\ pc' = "quaternion_conjugate"
    /\ UNCHANGED <<q0, q1, q2, factor, rsq, branch, mem, addr, macros, symbols, unit, done>>

\* r = quaternion_conjugate(quaternion_conjugate(q0)), generic
QuaternionConjugateTwice ==
    /\ pc = "quaternion_conjugate"
    /\ r' = quaternion_conjugate(r)
    /\ pc' = "quaternion_conjugate_twice"
    /\ UNCHANGED <<q0, q1, q2, factor, rsq, branch, mem, addr, macros, symbols, unit, done>>

\* r = quaternion_conjugate(q0), SSE2
Sse2QuaternionConjugate ==
    /\ pc = "start"
    /\ r' = sse2_quaternion_conjugate(q0)
    /\ pc' = "sse2_quaternion_conjugate"
    /\ UNCHANGED <<q0, q1, q2, factor, rsq, branch, mem, addr, macros, symbols, unit, done>>

\* r = quaternion_conjugate(quaternion_conjugate(q0)), SSE2
Sse2QuaternionConjugateTwice ==
    /\ pc = "sse2_quaternion_conjugate"
    /\ r' = sse2_quaternion_conjugate(r)
    /\ pc' = "sse2_quaternion_conjugate_twice"
    /\ UNCHANGED <<q0, q1, q2, factor, rsq, branch, mem, addr, macros, symbols, unit, done>>

\* r = quaternion_inverse(q0), generic
QuaternionInverse ==
    /\ pc = "start"
    /\ r' = quaternion_inverse(q0)
    /\ pc' = "quaternion_inverse"
    /\ UNCHANGED <<q0, q1, q2, factor, rsq, branch, mem, addr, macros, symbols, unit, done>>

\* r = quaternion_mul(q0, quaternion_inverse(q0)), generic
QuaternionMulInverse ==
    /\ pc = "quaternion_inverse"
    /\ r' = quaternion_mul(q0, r)
    /\ pc' = "quaternion_mul_inverse"
    /\ UNCHANGED <<q0, q1, q2, factor, rsq, branch, mem, addr, macros, symbols, unit, done>>

\* r = quaternion_inverse(q0), SSE2
Sse2QuaternionInverse ==
    /\ pc = "start"
    /\ r' = sse2_quaternion_inverse(q0)
    /\ pc' = "sse2_quaternion_inverse"
    /\ UNCHANGED <<q0, q1, q2, factor, rsq, branch, mem, addr, macros, symbols, unit, done>>

\* r = quaternion_mul(q0, quaternion_inverse(q0)), SSE2
Sse2QuaternionMulInverse ==
    /\ pc = "sse2_quaternion_inverse"
    /\ r' = sse2_quaternion_mul(q0, r)
    /\ pc' = "sse2_quaternion_mul_inverse"
    /\ UNCHANGED <<q0, q1, q2, factor, rsq, branch, mem, addr, macros, symbols, unit, done>>

NextUnary ==
    \/ QuaternionConjugate
    \/ QuaternionConjugateTwice
    \/ Sse2QuaternionConjugate
    \/ Sse2QuaternionConjugateTwice
    \/ QuaternionInverse
    \/ QuaternionMulInverse
    \/ Sse2QuaternionInverse
    \/ Sse2QuaternionMulInverse

SpecUnary == InitUnary /\ [][NextUnary]_vars

\* the squared norm x*x + y*y + z*z + w*w of a quaternion with integer lanes
NormSqr(q) == q.x.n * q.x.n + q.y.n * q.y.n + q.z.n * q.z.n + q.w.n * q.w.n

\* C5: for q of non-zero squared norm n, quaternion_inverse(q) is
\* (-x/n, -y/n, -z/n, w/n) and quaternion_mul(q, quaternion_inverse(q)) is
\* (0,0,0,1), on the generic and on the SSE2 definitions.
C5_InverseIsConjugateOverNorm ==
    LET n == NormSqr(q0)
    IN  n # 0 =>
        /\ pc \in {"quaternion_inverse", "sse2_quaternion_inverse"} =>
            /\ r.x = Real(0 - q0.x.n, n)
            /\ r.y = Real(0 - q0.y.n, n)
            /\ r.z = Real(0 - q0.z.n, n)
            /\ r.w = Real(q0.w.n, n)
        /\ pc \in {"quaternion_mul_inverse", "sse2_quaternion_mul_inverse"} =>
            /\ r.x = F(0) /\ r.y = F(0) /\ r.z = F(0) /\ r.w = F(1)
            /\ r = quaternion_identity

\* C5 witness: the tested q = (1,-2,3,-4), n = 30, multiplied by its SSE2 inverse
C5_Witness ==
    /\ pc = "sse2_quaternion_mul_inverse"
    /\ q0 = vector(F(1), F(0 - 2), F(3), F(0 - 4))
    /\ NormSqr(q0) = 30

\* C6: quaternion_conjugate(q) = (-x,-y,-z,w) on both backends, and applying
\* it twice returns q.
C6_ConjugateInvolution ==
    /\ pc \in {"quaternion_conjugate", "sse2_quaternion_conjugate"} =>
        /\ r.x = F(0 - q0.x.n)
        /\ r.y = F(0 - q0.y.n)
        /\ r.z = F(0 - q0.z.n)
        /\ r.w = q0.w
    /\ pc \in {"quaternion_conjugate_twice", "sse2_quaternion_conjugate_twice"} => r = q0

\* C6 witness: the SSE2 conjugate applied twice to a q with no zero lane
C6_Witness ==
    /\ pc = "sse2_quaternion_conjugate_twice"
    /\ q0 = vector(F(1), F(0 - 2), F(3), F(0 - 4))

----------------------------------------------------------------------------
(* Construction: the constructors on every float array at every address    *)

Floats == {F(i) : i \in (0 - MaxFloat) .. MaxFloat}

InitConstruct ==
    /\ pc = "start"
    /\ mem \in [1 .. 4 -> Floats]
    /\ addr \in {4 * k : k \in 0 .. MaxAddrWords}
    /\ q0 = vector_zero
    /\ q1 = vector_zero
    /\ q2 = vector_zero
    /\ r = vector_zero
    /\ NoSlerp /\ NoPreprocessor

QuaternionZero ==
    /\ pc = "start"
    /\ r' = quaternion_zero
    /\ pc' = "quaternion_zero"
    /\ UNCHANGED <<q0, q1, q2, factor, rsq, branch, mem, addr, macros, symbols, unit, done>>

QuaternionIdentity ==
    /\ pc = "start"
    /\ r' = quaternion_identity
    /\ pc' = "quaternion_identity"
    /\ UNCHANGED <<q0, q1, q2, factor, rsq, branch, mem, addr, macros, symbols, unit, done>>

QuaternionUnaligned ==
    /\ pc = "start"
    /\ r' = quaternion_unaligned(mem)
    /\ pc' = "quaternion_unaligned"
    /\ UNCHANGED <<q0, q1, q2, factor, rsq, branch, mem, addr, macros, symbols, unit, done>>

\* the aligned load of an address that is no multiple of 16 is undefined:
\* the assertion or the instruction faults, or the load goes through
QuaternionAligned ==
    /\ pc = "start"
    /\ \/ /\ r' = quaternion_aligned(mem)
          /\ pc' = "quaternion_aligned"
       \/ /\ addr % 16 # 0
          /\ r' = r
          /\ pc' = "fault"
    /\ UNCHANGED <<q0, q1, q2, factor, rsq, branch, mem, addr, macros, symbols, unit, done>>

VectorXAxis ==
    /\ pc = "start"
    /\ r' = vector_xaxis
    /\ pc' = "vector_xaxis"
    /\ UNCHANGED <<q0, q1, q2, factor, rsq, branch, mem, addr, macros, symbols, unit, done>>

VectorYAxis ==
    /\ pc = "start"
    /\ r' = vector_yaxis
    /\ pc' = "vector_yaxis"
    /\ UNCHANGED <<q0, q1, q2, factor, rsq, branch, mem, addr, macros, symbols, unit, done>>

VectorZAxis ==
    /\ pc = "start"
    /\ r' = vector_zaxis
    /\ pc' = "vector_zaxis"
    /\ UNCHANGED <<q0, q1, q2, factor, rsq, branch, mem, addr, macros, symbols, unit, done>>

NextConstruct ==
    \/ QuaternionZero
    \/ QuaternionIdentity
    \/ QuaternionUnaligned
    \/ QuaternionAligned
    \/ VectorXAxis
    \/ VectorYAxis
    \/ VectorZAxis

SpecConstruct == InitConstruct /\ [][NextConstruct]_vars

\* C7: quaternion_zero() is vector_zero() = (0,0,0,0), quaternion_identity()
\* is (0,0,0,1), and quaternion_unaligned(p) and quaternion_aligned(p) (p
\* 16-byte aligned) are (p[0], p[1], p[2], p[3]) in lanes x, y, z, w.
C7_Constructors ==
    /\ pc = "quaternion_zero" =>
        r = vector_zero /\ r.x = F(0) /\ r.y = F(0) /\ r.z = F(0) /\ r.w = F(0)
    /\ pc = "quaternion_identity" =>
        r.x = F(0) /\ r.y = F(0) /\ r.z = F(0) /\ r.w = F(1)
    /\ pc = "quaternion_unaligned" =>
        /\ r.x = mem[1] /\ r.y = mem[2] /\ r.z = mem[3] /\ r.w = mem[4]
        /\ r = vector(mem[1], mem[2], mem[3], mem[4])
    /\ (pc = "quaternion_aligned" /\ addr % 16 = 0) =>
        /\ r.x = mem[1] /\ r.y = mem[2] /\ r.z = mem[3] /\ r.w = mem[4]
        /\ r = vector(mem[1], mem[2], mem[3], mem[4])

\* C7 witness: the aligned load of four different floats from an aligned address
C7_Witness ==
    /\ pc = "quaternion_aligned"
    /\ addr = 16
    /\ mem = <<F(1), F(0 - 2), F(2), F(0 - 1)>>

\* C10: vector_xaxis(), vector_yaxis() and vector_zaxis() return (1,0,0,0),
\* (0,1,0,0) and (0,0,1,0): the w-lane is 0.
C10_AxesAreUnitBasis ==
    /\ pc = "vector_xaxis" => r = vector(F(1), F(0), F(0), F(0))
    /\ pc = "vector_yaxis" => r = vector(F(0), F(1), F(0), F(0))
    /\ pc = "vector_zaxis" => r = vector(F(0), F(0), F(1), F(0))

----------------------------------------------------------------------------
(* Define-if-absent dispatch: the preprocessor over quaternion_sse2.h,     *)
(* quaternion_base.h and matrix_base.h                                     *)

\* #ifndef flag / definition of symbol / [#define flag 1] / #endif, in file
Ifndef(flag, symbol, file, sets) ==
    [kind |-> "ifndef", flag |-> flag, symbol |-> symbol, file |-> file, sets |-> sets]

\* #undef flag
Undef(flag) ==
    [kind |-> "undef", flag |-> flag, symbol |-> "", file |-> "", sets |-> FALSE]

\* #include <vector/file>
Include(file) ==
    [kind |-> "include", flag |-> "", symbol |-> "", file |-> file, sets |-> FALSE]

\* quaternion_sse2.h without "#define VECTOR_HAVE_QUATERNION_MUL 1"
quaternion_sse2_h_mul_flag_missing ==
    <<Ifndef("VECTOR_HAVE_QUATERNION_CONJUGATE", "quaternion_conjugate", "quaternion_sse2.h", TRUE),
      Ifndef("VECTOR_HAVE_QUATERNION_INVERSE", "quaternion_inverse", "quaternion_sse2.h", TRUE),
      Ifndef("VECTOR_HAVE_QUATERNION_MUL", "quaternion_mul", "quaternion_sse2.h", FALSE),
      Ifndef("VECTOR_HAVE_QUATERNION_ROTATE", "quaternion_rotate", "quaternion_sse2.h", TRUE),
      Include("quaternion_base.h")>>

quaternion_sse2_h ==
    <<Ifndef("VECTOR_HAVE_QUATERNION_CONJUGATE", "quaternion_conjugate", "quaternion_sse2.h", TRUE),
      Ifndef("VECTOR_HAVE_QUATERNION_INVERSE", "quaternion_inverse", "quaternion_sse2.h", TRUE),
      Ifndef("VECTOR_HAVE_QUATERNION_MUL", "quaternion_mul", "quaternion_sse2.h", TRUE),
      Ifndef("VECTOR_HAVE_QUATERNION_ROTATE", "quaternion_rotate", "quaternion_sse2.h", TRUE),
      Include("quaternion_base.h")>>

quaternion_base_h ==
    <<Ifndef("VECTOR_HAVE_QUATERNION_ZERO", "quaternion_zero", "quaternion_base.h", FALSE),
      Ifndef("VECTOR_HAVE_QUATERNION_UNALIGNED", "quaternion_unaligned", "quaternion_base.h", FALSE),
      Ifndef("VECTOR_HAVE_QUATERNION_ALIGNED", "quaternion_aligned", "quaternion_base.h", FALSE),
      Ifndef("VECTOR_HAVE_QUATERNION_IDENTITY", "quaternion_identity", "quaternion_base.h", FALSE),
      Ifndef("VECTOR_HAVE_QUATERNION_CONJUGATE", "quaternion_conjugate", "quaternion_base.h", FALSE),
      Ifndef("VECTOR_HAVE_QUATERNION_INVERSE", "quaternion_inverse", "quaternion_base.h", FALSE),
      Ifndef("VECTOR_HAVE_QUATERNION_NEG", "quaternion_neg", "quaternion_base.h", FALSE),
      Ifndef("VECTOR_HAVE_QUATERNION_NORMALIZE", "quaternion_normalize", "quaternion_base.h", FALSE),
      Ifndef("VECTOR_HAVE_QUATERNION_MUL", "quaternion_mul", "quaternion_base.h", FALSE),
      Ifndef("VECTOR_HAVE_QUATERNION_ADD", "quaternion_add", "quaternion_base.h", FALSE),
      Ifndef("VECTOR_HAVE_QUATERNION_SUB", "quaternion_sub", "quaternion_base.h", FALSE),
      Ifndef("VECTOR_HAVE_QUATERNION_SLERP", "quaternion_slerp", "quaternion_base.h", FALSE),
      Ifndef("VECTOR_HAVE_QUATERNION_ROTATE", "quaternion_rotate", "quaternion_base.h", FALSE),
      Undef("VECTOR_HAVE_QUATERNION_ZERO"),
      Undef("VECTOR_HAVE_QUATERNION_IDENTITY"),
      Undef("VECTOR_HAVE_QUATERNION_UNALIGNED"),
      Undef("VECTOR_HAVE_QUATERNION_ALIGNED"),
      Undef("VECTOR_HAVE_QUATERNION_CONJUGATE"),
      Undef("VECTOR_HAVE_QUATERNION_INVERSE"),
      Undef("VECTOR_HAVE_QUATERNION_NEG"),
      Undef("VECTOR_HAVE_QUATERNION_NORMALIZE"),
      Undef("VECTOR_HAVE_QUATERNION_MUL"),
      Undef("VECTOR_HAVE_QUATERNION_ADD"),
      Undef("VECTOR_HAVE_QUATERNION_SUB"),
      Undef("VECTOR_HAVE_QUATERNION_SLERP"),
      Undef("VECTOR_HAVE_QUATERNION_ROTATE")>>

matrix_base_h ==
    <<Ifndef("VECTOR_HAVE_MATRIX_ZERO", "matrix_zero", "matrix_base.h", FALSE),
      Ifndef("VECTOR_HAVE_MATRIX_UNALIGNED", "matrix_unaligned", "matrix_base.h", FALSE),
      Ifndef("VECTOR_HAVE_MATRIX_ALIGNED", "matrix_aligned", "matrix_base.h", FALSE),
      Ifndef("VECTOR_HAVE_MATRIX_IDENTITY", "matrix_identity", "matrix_base.h", FALSE),
      Ifndef("VECTOR_HAVE_MATRIX_TRANSPOSE", "matrix_transpose", "matrix_base.h", FALSE),
      Ifndef("VECTOR_HAVE_MATRIX_MUL", "matrix_mul", "matrix_base.h", FALSE),
      Ifndef("VECTOR_HAVE_MATRIX_ADD", "matrix_add", "matrix_base.h", FALSE),
      Ifndef("VECTOR_HAVE_MATRIX_SUB", "matrix_sub", "matrix_base.h", FALSE),
      Ifndef("VECTOR_HAVE_MATRIX_ROTATE", "matrix_rotate", "matrix_base.h", FALSE),
      Ifndef("VECTOR_HAVE_MATRIX_TRANSFORM", "matrix_transform", "matrix_base.h", FALSE),
      Undef("VECTOR_HAVE_MATRIX_ZERO"),
      Undef("VECTOR_HAVE_MATRIX_IDENTITY"),
      Undef("VECTOR_HAVE_MATRIX_UNALIGNED"),
      Undef("VECTOR_HAVE_MATRIX_ALIGNED"),
      Undef("VECTOR_HAVE_MATRIX_TRANSPOSE"),
      Undef("VECTOR_HAVE_MATRIX_MUL"),
      Undef("VECTOR_HAVE_MATRIX_ADD"),
      Undef("VECTOR_HAVE_MATRIX_SUB"),
      Undef("VECTOR_HAVE_MATRIX_ROTATE"),
      Undef("VECTOR_HAVE_MATRIX_TRANSFORM")>>

\* the directives of an included file
FileBody(file) ==
    CASE file = "quaternion_sse2.h" -> quaternion_sse2_h
      [] file = "quaternion_base.h" -> quaternion_base_h
      [] file = "matrix_base.h" -> matrix_base_h

QuaternionOps == {quaternion_base_h[i].symbol : i \in 1 .. 13}

QuaternionOverrides == {quaternion_sse2_h[i].symbol : i \in 1 .. 4}

MatrixOps == {matrix_base_h[i].symbol : i \in 1 .. 10}

\* the flags and definitions a matrix backend leaves that defined exactly ops
BackendMacros(ops) == {matrix_base_h[i].flag : i \in {j \in 1 .. 10 : matrix_base_h[j].symbol \in ops}}

BackendSymbols(ops) ==
    [op \in QuaternionOps \cup MatrixOps |-> IF op \in ops THEN <<"matrix backend">> ELSE <<>>]

\* the translation unit is quaternion_sse2.h with no flag set, or matrix_base.h
\* after a backend that defined any subset of the matrix operations
InitDispatch ==
    /\ \/ /\ pc = "quaternion_sse2.h"
          /\ macros = {}
          /\ symbols = BackendSymbols({})
       \/ /\ pc = "matrix_base.h"
          /\ \E ops \in SUBSET MatrixOps :
                /\ macros = BackendMacros(ops)
                /\ symbols = BackendSymbols(ops)
    /\ unit = FileBody(pc)
    /\ done = 0
    /\ q0 = vector_zero
    /\ q1 = vector_zero
    /\ q2 = vector_zero
    /\ r = vector_zero
    /\ NoSlerp /\ NoMemory

\* an #ifndef block: the definition is compiled unless the flag is defined
IfndefBlock ==
    /\ unit # <<>>
    /\ Head(unit).kind = "ifndef"
    /\ LET d == Head(unit)
       IN  IF d.flag \in macros
           THEN UNCHANGED <<macros, symbols>>
           ELSE /\ symbols' = [symbols EXCEPT ![d.symbol] = Append(@, d.file)]
                /\ macros' = IF d.sets THEN macros \cup {d.flag} ELSE macros
    /\ unit' = Tail(unit)
    /\ done' = done + 1
    /\ UNCHANGED <<pc, q0, q1, q2, factor, r, rsq, branch, mem, addr>>

\* #include: the directives of the file come next
IncludeFile ==
    /\ unit # <<>>
    /\ Head(unit).kind = "include"
    /\ unit' = FileBody(Head(unit).file) \o Tail(unit)
    /\ done' = done + 1
    /\ UNCHANGED <<pc, q0, q1, q2, factor, r, rsq, branch, mem, addr, macros, symbols>>

\* #undef
UndefFlag ==
    /\ unit # <<>>
    /\ Head(unit).kind = "undef"
    /\ macros' = macros \ {Head(unit).flag}
    /\ unit' = Tail(unit)
    /\ done' = done + 1
    /\ UNCHANGED <<pc, q0, q1, q2, factor, r, rsq, branch, mem, addr, symbols>>

NextDispatch == IfndefBlock \/ IncludeFile \/ UndefFlag

SpecDispatch == InitDispatch /\ [][NextDispatch]_vars

\* C8: after quaternion_sse2.h from no flag set, each of the 13 quaternion
\* operations is defined exactly once, by quaternion_sse2.h for conjugate,
\* inverse, mul and rotate and by quaternion_base.h for the other nine; after
\* matrix_base.h each of the 10 matrix operations is defined exactly once,
\* whatever subset a backend defined before; no operation is ever defined twice.
C8_ExactlyOneDefinition ==
    /\ Cardinality(QuaternionOps) = 13
    /\ Cardinality(QuaternionOverrides) = 4
    /\ Cardinality(MatrixOps) = 10
    /\ \A op \in DOMAIN symbols : Len(symbols[op]) <= 1
    /\ (pc = "quaternion_sse2.h" /\ unit = <<>>) =>
        \A op \in QuaternionOps :
            symbols[op] = IF op \in QuaternionOverrides
                          THEN <<"quaternion_sse2.h">>
                          ELSE <<"quaternion_base.h">>
    /\ (pc = "matrix_base.h" /\ unit = <<>>) =>
        \A op \in MatrixOps :
            symbols[op] \in {<<"matrix backend">>, <<"matrix_base.h">>}

\* C8 witness: quaternion_sse2.h processed to its end, the include and the
\* #undef block of quaternion_base.h included
C8_Witness ==
    /\ pc = "quaternion_sse2.h"
    /\ unit = <<>>
    /\ done = 4 + 1 + 13 + 13
    /\ symbols["quaternion_mul"] = <<"quaternion_sse2.h">>
    /\ symbols["quaternion_slerp"] = <<"quaternion_base.h">>

----------------------------------------------------------------------------
(* Interpolation: quaternion_slerp from every unit q0 to every q1          *)

Halves == {Real(k, 2) : k \in (0 - MaxHalf) .. MaxHalf}

QuatsH == {vector(a, b, c, d) : a \in Halves, b \in Halves, c \in Halves, d \in Halves}

\* lane-by-lane x0*x1 + y0*y1 + z0*z1 + w0*w1
Dot4(a, b) == fadd(fadd(fadd(fmul(a.x, b.x), fmul(a.y, b.y)), fmul(a.z, b.z)), fmul(a.w, b.w))

UnitQuatsH == {q \in QuatsH : Dot4(q, q) = F(1)}

Factors == {F(0), Real(1, 2), F(1)}

\* targets with infinite lanes: every lane is 0, +Inf or -Inf
QuatsInf ==
    LET Special == {F(0), [n |-> 1, d |-> 0], [n |-> 0 - 1, d |-> 0]}
    IN  {vector(a, b, c, d) : a \in Special, b \in Special, c \in Special, d \in Special}

InitSlerp ==
    /\ pc = "start"
    /\ q0 \in UnitQuatsH
    /\ q1 \in QuatsH \cup QuatsInf
    /\ factor \in Factors
    /\ q2 = vector_zero
    /\ r = vector_zero
    /\ rsq = F(1)
    /\ branch = "none"
    /\ NoMemory /\ NoPreprocessor

\* r * sqrt(rsq) = quaternion_slerp(q0, q1, factor)
QuaternionSlerp ==
    /\ pc = "start"
    /\ LET res == quaternion_slerp(q0, q1, factor)
       IN  /\ r' = res.r
           /\ rsq' = res.rsq
           /\ branch' = res.branch
    /\ pc' = "quaternion_slerp"
    /\ UNCHANGED <<q0, q1, q2, factor, mem, addr, macros, symbols, unit, done>>

NextSlerp == QuaternionSlerp

SpecSlerp == InitSlerp /\ [][NextSlerp]_vars

\* the cosine after the shortest-path correction is at least 1
CosAtLeastOne(a, b) ==
    LET d == Dot4(a, b)
    IN  ~IsNaN(d) /\ (~flt(d, F(1)) \/ ~flt(F(0 - 1), d))

\* C9 as stated: when the corrected cosine is >= 1, quaternion_slerp returns
\* the caller's q1, lane for lane, for every t.
C9_ReturnsCallersQ1 ==
    (pc = "quaternion_slerp" /\ CosAtLeastOne(q0, q1)) =>
        (r = q1 /\ rsq = F(1))

\* C9 amended: when the corrected cosine is >= 1, quaternion_slerp returns qd
\* for every t: q1 when dot(q0, q1) >= 0, and -q1 when dot(q0, q1) < 0.
C9_ReturnsCorrectedQ1 ==
    (pc = "quaternion_slerp" /\ CosAtLeastOne(q0, q1)) =>
        /\ branch = "cos_ge_1"
        /\ rsq = F(1)
        /\ r = IF flt(Dot4(q0, q1), F(0))
               THEN vector(fneg(q1.x), fneg(q1.y), fneg(q1.z), fneg(q1.w))
               ELSE q1

\* C9 witness: q0 = (0,0,0,1), q1 = (0,0,0,-1), t = 1/2: the correction is
\* applied and the corrected cosine is 1
C9_Witness ==
    /\ pc = "quaternion_slerp"
    /\ q0 = vector(F(0), F(0), F(0), F(1))
    /\ q1 = vector(F(0), F(0), F(0), F(0 - 1))
    /\ factor = Real(1, 2)
    /\ branch = "cos_ge_1"

\* no lane of q is NaN
NonNaN(q) == ~IsNaN(q.x) /\ ~IsNaN(q.y) /\ ~IsNaN(q.z) /\ ~IsNaN(q.w)

\* the cosine slerp chooses the angle by: dot(q0, q1), or dot(q0, -q1) when
\* dot(q0, q1) < 0
CorrectedCos(a, b) ==
    LET d == Dot4(a, b)
    IN  IF flt(d, F(0))
        THEN Dot4(a, vector(fneg(b.x), fneg(b.y), fneg(b.z), fneg(b.w)))
        ELSE d

\* the cosine is not negative, the guard -1.0f < cosval is true, and the call
\* leaves by an early return or by the acos interpolation, never by angle = pi
PiBranchNotTaken ==
    LET c == CorrectedCos(q0, q1)
    IN  /\ ~IsNaN(c) /\ ~flt(c, F(0))
        /\ flt(F(0 - 1), c)
        /\ branch \in {"cos_ge_1", "angle_zero", "acos"}

\* C13 as stated: for all non-NaN q0, q1 the corrected cosine is non-negative,
\* the guard -1.0f < cosval is true and the angle = REAL_PI branch is never
\* executed.
C13_PiBranchDeadForNonNaN ==
    (pc = "quaternion_slerp" /\ NonNaN(q0) /\ NonNaN(q1)) => PiBranchNotTaken

\* C13 amended: for all q0, q1 whose dot product is not NaN the corrected
\* cosine is non-negative, the guard -1.0f < cosval is true and the call ends
\* in the cos >= 1 return, the angle-is-zero return or the acos interpolation.
C13_PiBranchDeadForNonNaNDot ==
    (pc = "quaternion_slerp" /\ ~IsNaN(vector_dot(q0, q1).x)) => PiBranchNotTaken

\* C13 witness: dot(q0, q1) < 0, the correction is applied and the corrected
\* cosine leads to the acos interpolation
C13_Witness ==
    /\ pc = "quaternion_slerp"
    /\ flt(vector_dot(q0, q1).x, F(0))
    /\ flt(F(0), CorrectedCos(q0, q1))
    /\ branch = "acos"

----------------------------------------------------------------------------
(* Length: vector_length and vector_length3 of the SSE3 backend            *)

IsSquare(n) == n >= 0 /\ \E k \in 0 .. n : k * k = n

Isqrt(n) == CHOOSE k \in 0 .. n : k * k = n

\* a lane whose square root is a rational (or an IEEE special)
HasExactSqrt(a) == a.d = 0 \/ flt(a, F(0)) \/ (IsSquare(a.n) /\ IsSquare(a.d))

\* sqrtf: NaN below zero, +Inf at +Inf, the exact root of a rational square
fsqrt(a) ==
    IF IsNaN(a) \/ flt(a, F(0)) THEN [n |-> 0, d |-> 0]
    ELSE IF a.d = 0 THEN a
    ELSE [n |-> Isqrt(a.n), d |-> Isqrt(a.d)]

\* the square root of lane 0; lanes 1..3 are copied from the operand
_mm_sqrt_ss(a) == [x |-> fsqrt(a.x), y |-> a.y, z |-> a.z, w |-> a.w]

vector_length(v) == _mm_sqrt_ss(vector_length_sqr(v))

vector_length3_sqr(v) == vector_dot3(v, v)

vector_length3(v) == _mm_sqrt_ss(vector_length3_sqr(v))

InitLength ==
    /\ pc = "start"
    /\ q0 \in QuatsU
    /\ q1 = vector_zero
    /\ q2 = vector_zero
    /\ r = vector_zero
    /\ NoSlerp /\ NoMemory /\ NoPreprocessor

\* r = vector_length_sqr(q0)
VectorLengthSqr ==
    /\ pc = "start"
    /\ r' = vector_length_sqr(q0)
    /\ pc' = "vector_length_sqr"
    /\ UNCHANGED <<q0, q1, q2, factor, rsq, branch, mem, addr, macros, symbols, unit, done>>

\* r = vector_length(q0), for q0 whose squared length has a rational root
VectorLength ==
    /\ pc = "start"
    /\ HasExactSqrt(vector_length_sqr(q0).x)
    /\ r' = vector_length(q0)
    /\ pc' = "vector_length"
    /\ UNCHANGED <<q0, q1, q2, factor, rsq, branch, mem, addr, macros, symbols, unit, done>>

\* r = vector_length3_sqr(q0)
VectorLength3Sqr ==
    /\ pc = "start"
    /\ r' = vector_length3_sqr(q0)
    /\ pc' = "vector_length3_sqr"
    /\ UNCHANGED <<q0, q1, q2, factor, rsq, branch, mem, addr, macros, symbols, unit, done>>

\* r = vector_length3(q0), for q0 whose squared 3-length has a rational root
VectorLength3 ==
    /\ pc = "start"
    /\ HasExactSqrt(vector_length3_sqr(q0).x)
    /\ r' = vector_length3(q0)
    /\ pc' = "vector_length3"
    /\ UNCHANGED <<q0, q1, q2, factor, rsq, branch, mem, addr, macros, symbols, unit, done>>

NextLength == VectorLengthSqr \/ VectorLength \/ VectorLength3Sqr \/ VectorLength3

SpecLength == InitLength /\ [][NextLength]_vars

\* a vector whose four lanes all hold a non-negative s with s * s = n
BroadcastRootOf(v, n) ==
    /\ v.x = v.y /\ v.y = v.z /\ v.z = v.w
    /\ ~flt(v.x, F(0))
    /\ fmul(v.x, v.x) = F(n)

\* C11: vector_length(v) and vector_length3(v) return a broadcast scalar: all
\* four lanes equal the square root of the squared length (x*x + y*y + z*z + w*w,
\* resp. x*x + y*y + z*z).
C11_LengthIsBroadcastRoot ==
    /\ pc = "vector_length" => BroadcastRootOf(r, NormSqr(q0))
    /\ pc = "vector_length3" => BroadcastRootOf(r, NormSqr(q0) - q0.w.n * q0.w.n)

----------------------------------------------------------------------------
(* matrix_base.h: matrix_t is four row vectors, row[0..3], also read as    *)
(* frow[row][col]                                                          *)

frow(m, row, col) == Lane(m[row + 1], col)

matrix_unaligned(m) ==
    << vector_unaligned(SubSeq(m, 1, 4)), vector_unaligned(SubSeq(m, 5, 8)),
       vector_unaligned(SubSeq(m, 9, 12)), vector_unaligned(SubSeq(m, 13, 16)) >>

\* *(const matrix_t*)m: the sixteen floats read as four rows in order
matrix_aligned(m) ==
    << vector_aligned(SubSeq(m, 1, 4)), vector_aligned(SubSeq(m, 5, 8)),
       vector_aligned(SubSeq(m, 9, 12)), vector_aligned(SubSeq(m, 13, 16)) >>

_identity_matrix ==
    << F(1), F(0), F(0), F(0),
       F(0), F(1), F(0), F(0),
       F(0), F(0), F(1), F(0),
       F(0), F(0), F(0), F(1) >>

matrix_identity == matrix_aligned(_identity_matrix)

\* matrix_mul reading the second operand as frow[col][k]
matrix_mul_second_transposed(m0, m1) ==
    LET e(row, col) ==
            fadd(fadd(fadd(fmul(frow(m0, row, 0), frow(m1, col, 0)),
                           fmul(frow(m0, row, 1), frow(m1, col, 1))),
                      fmul(frow(m0, row, 2), frow(m1, col, 2))),
                 fmul(frow(m0, row, 3), frow(m1, col, 3)))
    IN  [i \in 1 .. 4 |-> vector(e(i - 1, 0), e(i - 1, 1), e(i - 1, 2), e(i - 1, 3))]

matrix_mul(m0, m1) ==
    LET e(row, col) ==
            fadd(fadd(fadd(fmul(frow(m0, row, 0), frow(m1, 0, col)),
                           fmul(frow(m0, row, 1), frow(m1, 1, col))),
                      fmul(frow(m0, row, 2), frow(m1, 2, col))),
                 fmul(frow(m0, row, 3), frow(m1, 3, col)))
    IN  [i \in 1 .. 4 |-> vector(e(i - 1, 0), e(i - 1, 1), e(i - 1, 2), e(i - 1, 3))]

\* the rows a matrix operand is built from: the four identity rows, a row with
\* an infinite entry, and dense rows of four different finite values
RowOf(i) ==
    IF i < 4 THEN [j \in 1 .. 4 |-> IF j = i + 1 THEN F(1) ELSE F(0)]
    ELSE IF i = 5 THEN << [n |-> 1, d |-> 0], F(0), F(0 - 1), F(2) >>
    ELSE << F(i - 3), F(0 - (i - 2)), F(i - 1), F(0 - i) >>

Rows == {RowOf(i) : i \in 0 .. MaxRow}

InitMatrix ==
    /\ pc = "start"
    /\ mem \in {a \o b \o c \o d : a \in Rows, b \in Rows, c \in Rows, d \in Rows}
    /\ addr = 0
    /\ q0 = vector_zero
    /\ q1 = vector_zero
    /\ q2 = vector_zero
    /\ r = vector_zero
    /\ NoSlerp /\ NoPreprocessor

\* r = matrix_mul(matrix_identity(), m), m read from the float array
MatrixMulIdentityLeft ==
    /\ pc = "start"
    /\ r' = matrix_mul(matrix_identity, matrix_unaligned(mem))
    /\ pc' = "matrix_mul_identity_m"
    /\ UNCHANGED <<q0, q1, q2, factor, rsq, branch, mem, addr, macros, symbols, unit, done>>

\* r = matrix_mul(m, matrix_identity()), m read from the float array
MatrixMulIdentityRight ==
    /\ pc = "start"
    /\ r' = matrix_mul(matrix_unaligned(mem), matrix_identity)
    /\ pc' = "matrix_mul_m_identity"
    /\ UNCHANGED <<q0, q1, q2, factor, rsq, branch, mem, addr, macros, symbols, unit, done>>

NextMatrix == MatrixMulIdentityLeft \/ MatrixMulIdentityRight

SpecMatrix == InitMatrix /\ [][NextMatrix]_vars

\* operator == on float32_t: a NaN equals nothing
FloatEq(a, b) == ~IsNaN(a) /\ ~IsNaN(b) /\ a = b

\* m == the matrix held in the float array p, entry by entry
MatrixEq(m, p) ==
    \A row \in 0 .. 3 : \A col \in 0 .. 3 : FloatEq(frow(m, row, col), p[4 * row + col + 1])

AllFinite(p) == \A i \in 1 .. 16 : p[i].d # 0

IdentityProductDone == pc \in {"matrix_mul_identity_m", "matrix_mul_m_identity"}

\* C12 as stated: for every 4x4 matrix m, matrix_mul(matrix_identity(), m) == m
\* and matrix_mul(m, matrix_identity()) == m.
C12_IdentityNeutralForEveryMatrix == IdentityProductDone => MatrixEq(r, mem)

\* C12: for every 4x4 matrix m whose sixteen entries are finite,
\* matrix_mul(matrix_identity(), m) == m and matrix_mul(m, matrix_identity()) == m.
C12_IdentityNeutralForFiniteMatrix ==
    (IdentityProductDone /\ AllFinite(mem)) => MatrixEq(r, mem)

\* a finite operand that is dense and not symmetric, after either product
C12_Witness ==
    /\ IdentityProductDone
    /\ AllFinite(mem)
    /\ \A i \in 1 .. 16 : mem[i] # F(0)
    /\ mem[2] # mem[5]
    /\ MatrixEq(r, mem)

====
